---- MODULE Spec2Model ----
(***************************************************************************)
(* Model of MAP.py, the Global Mineral Dashboard: the module-level load of *)
(* the CSV table (lines 15-78) and the update_map callback (lines 86-134). *)
(*                                                                         *)
(* A pandas cell of a text column is a string, NaN being the missing cell. *)
(* A cell of a numeric column is <<>> (NaN) or <<v>> (the number v).       *)
(***************************************************************************)
EXTENDS Integers, Sequences, FiniteSets

VARIABLES file, pc, df, df_defined, years, all_minerals, indicator_cols,
          layout, callback, request, result

vars == <<file, pc, df, df_defined, years, all_minerals, indicator_cols,
          layout, callback, request, result>>

(***************************************************************************)
(* Bounds of the input tables.                                             *)
(***************************************************************************)
MaxRows == 2
MaxQty == 2

(***************************************************************************)
(* Values                                                                  *)
(***************************************************************************)
NaN == "NaN"
NoNum == <<>>
NoneValue == "<None>"

home_country == "India"
unit == "(tonnes)"
AllMineralsLabel == "--- All Minerals ---"
known_cols == {"Country", "Year", "Production Mineral", "Production Qty",
               "Import Mineral Name", "Import Qty"}

\* The columns of the input file, in file order: the six structural columns,
\* a numeric extra column and a text extra column.
Columns == <<"Country", "Year", "Production Mineral", "Production Qty",
             "Import Mineral Name", "Import Qty", "GDP", "Note">>
ColumnSet == {Columns[i] : i \in DOMAIN Columns}
TextColumns == {"Country", "Production Mineral", "Import Mineral Name", "Note"}

\* Lexicographic order of the names that occur, as Python's sorted() and
\* pandas' sort of merge keys order them.
NameOrder == <<"China", "GDP", "Gold", "India", "Iron", "Note">>

Countries == {"China", "India"}
Minerals == {"Gold", "Iron"}
YearValues == {2020, 2021}

\* A raw Year cell: the decimal text of val, or a text that is no number.
RawYears == {[numeric |-> TRUE, val |-> y] : y \in YearValues}
              \cup {[numeric |-> FALSE, val |-> 0]}
IndicatorCells == {NoNum, <<7>>}

RawRow(c, y, pm, pq, im, iq, g) ==
    [col \in ColumnSet |->
        CASE col = "Country" -> c
          [] col = "Year" -> y
          [] col = "Production Mineral" -> pm
          [] col = "Production Qty" -> pq
          [] col = "Import Mineral Name" -> im
          [] col = "Import Qty" -> iq
          [] col = "GDP" -> g
          [] OTHER -> "x"]

\* The Year cell that is the decimal text of y.
YearText(y) == [numeric |-> TRUE, val |-> y]

\* One side of a row, <<mineral, quantity>>: nothing, a mineral without a
\* quantity, and two minerals with a quantity.
Sides == {<<NaN, NoNum>>, <<"Iron", NoNum>>, <<"Iron", <<MaxQty>> >>,
          <<"Gold", <<MaxQty>> >>}

\* Rows for the mineral views of 2020: every country with every pair of
\* sides, two rows of another year, and two rows with a negative quantity.
MineralRows ==
    {RawRow(c, YearText(2020), p[1], p[2], i[1], i[2], NoNum) :
        c \in Countries \cup {NaN}, p \in Sides, i \in Sides}
    \cup {RawRow(c, YearText(2021), "Iron", <<MaxQty>>, "Iron", <<MaxQty>>,
                 NoNum) : c \in Countries}
    \cup {RawRow("India", YearText(2020), "Iron", <<0 - 1>>, NaN, NoNum, NoNum),
          RawRow("India", YearText(2020), NaN, NoNum, "Iron", <<0 - 1>>, NoNum)}

\* The mineral cells of the rows of a country in GeneralRows.
Profile(c) ==
    CASE c = "India" -> <<"Iron", <<MaxQty>>, NaN, NoNum>>
      [] c = "China" -> <<"Gold", NoNum, "Iron", <<MaxQty>> >>
      [] OTHER -> <<NaN, <<MaxQty>>, "Gold", NoNum>>

\* Rows that vary the country, the year text and the indicator.
GeneralRows ==
    {RawRow(c, y, Profile(c)[1], Profile(c)[2], Profile(c)[3],
            Profile(c)[4], g) :
        c \in Countries \cup {NaN}, y \in RawYears, g \in IndicatorCells}

TablesOf(rows) == UNION {[1..n -> rows] : n \in 0..MaxRows}

\* The table of the specification's worked example.
ExampleTable ==
    << RawRow("India", YearText(2020), "Iron", <<100>>, "Iron", <<20>>, NoNum),
       RawRow("China", YearText(2020), "Iron", <<200>>, NaN, NoNum, NoNum) >>

\* The input file: absent, present but not a parseable table, or a table.
FileOf(t) == [exists |-> TRUE, parseable |-> TRUE, rows |-> t]
MissingFile == [exists |-> FALSE, parseable |-> FALSE, rows |-> <<>>]
UnparseableFile == [exists |-> TRUE, parseable |-> FALSE, rows |-> <<>>]

GeneralFiles ==
    {MissingFile, UnparseableFile}
    \cup {FileOf(t) : t \in TablesOf(GeneralRows) \cup {ExampleTable}}
MineralFiles ==
    {FileOf(t) : t \in TablesOf(MineralRows) \cup {ExampleTable}}
Files == GeneralFiles \cup MineralFiles

(***************************************************************************)
(* Helpers                                                                 *)
(***************************************************************************)
Range(s) == {s[i] : i \in DOMAIN s}

\* A missing number counts as 0 in a sum (skipna) and after fillna(0).
Num(cell) == IF cell = NoNum THEN 0 ELSE cell[1]

\* sorted(): the names of a set in lexicographic order.
Sorted(names) == SelectSeq(NameOrder, LAMBDA n : n \in names)

(***************************************************************************)
(* Module-level load, lines 15-32                                          *)
(***************************************************************************)
\* pd.read_csv: the exception it raises, or "ok".
read_csv(f) ==
    IF ~f.exists THEN "FileNotFoundError"
    ELSE IF ~f.parseable THEN "ParserError"
    ELSE "ok"

\* pd.to_numeric(cell, errors='coerce'): the number, or NaN for any other text.
to_numeric(cell) == IF cell.numeric THEN <<cell.val>> ELSE NoNum

\* df['Year'] = pd.to_numeric(df['Year'], errors='coerce').dropna().astype(int)
\* dropna() shortens the series, not the frame: the assignment aligns the
\* series on the frame's index, and a row the series lacks gets NaN.
clean_year(rows) ==
    LET coerced == [i \in DOMAIN rows |-> to_numeric(rows[i]["Year"])]
        kept == {i \in DOMAIN rows : coerced[i] # NoNum}
    IN  [i \in DOMAIN rows |->
            [rows[i] EXCEPT !["Year"] =
                IF i \in kept THEN coerced[i] ELSE NoNum]]

\* df[col].dropna().unique(), as a set.
dropna_unique(d, col) == {d[i][col] : i \in DOMAIN d} \ {NaN}

\* years = sorted(df['Year'].unique()), as the set of its values.
years_of(d) == {d[i]["Year"] : i \in DOMAIN d}

all_minerals_of(d) ==
    LET prod_minerals == Sorted(dropna_unique(d, "Production Mineral"))
        import_minerals == Sorted(dropna_unique(d, "Import Mineral Name"))
    IN  Sorted(Range(prod_minerals) \cup Range(import_minerals))

\* df[col].dtype in ['int64', 'float64']: a column of numbers and NaN only.
numeric_dtype(d, col) == d # <<>> /\ col \notin TextColumns

indicator_cols_of(d) ==
    Sorted({col \in ColumnSet :
               /\ numeric_dtype(d, col)
               /\ col \notin known_cols
               /\ col # "Year"})

TypeOK ==
    /\ file \in Files
    /\ pc \in {"start", "running", "crashed"}
    /\ layout \in {"none", "dashboard", "error"}
    /\ df_defined \in BOOLEAN
    /\ callback \in BOOLEAN

NoRequest == [year |-> 0, mineral |-> NoneValue, data_type |-> NoneValue,
              indicator |-> NoneValue]
NoResult == [status |-> "none"]

InitFrom(files) ==
    /\ file \in files
    /\ pc = "start"
    /\ df = <<>>
    /\ df_defined = FALSE
    /\ years = {}
    /\ all_minerals = <<>>
    /\ indicator_cols = <<>>
    /\ layout = "none"
    /\ callback = FALSE
    /\ request = NoRequest
    /\ result = NoResult

\* Lines 15-78: the try block, the FileNotFoundError handler and the
\* registration of the callback.
Load ==
    /\ pc = "start"
    /\ UNCHANGED <<file, request, result>>
    /\ CASE read_csv(file) = "FileNotFoundError" ->
              \* caught at line 66: the error layout, df never bound
              /\ pc' = "running"
              /\ layout' = "error"
              /\ df_defined' = FALSE
              /\ callback' = FALSE
              /\ UNCHANGED <<df, years, all_minerals, indicator_cols>>
         [] read_csv(file) = "ParserError" ->
              \* no handler: the exception leaves the module
              /\ pc' = "crashed"
              /\ UNCHANGED <<df, df_defined, years, all_minerals,
                             indicator_cols, layout, callback>>
         [] OTHER ->
              LET d == clean_year(file.rows) IN
              /\ df' = d
              /\ df_defined' = TRUE
              /\ years' = years_of(d)
              /\ all_minerals' = all_minerals_of(d)
              /\ indicator_cols' = indicator_cols_of(d)
              /\ IF years_of(d) = {}
                   THEN \* min(years) at line 62 raises ValueError
                        /\ pc' = "crashed"
                        /\ UNCHANGED <<layout, callback>>
                   ELSE /\ pc' = "running"
                        /\ layout' = "dashboard"
                        /\ callback' = TRUE

(***************************************************************************)
(* update_map, lines 86-134                                                *)
(***************************************************************************)
\* Python truthiness of selected_indicator: None and '' are false.
Truthy(v) == v # NoneValue /\ v # ""

\* Fault variant of year_df: the year mask is not applied.
year_df_unfiltered(d, selected_year) == d

\* Line 87: year_df = df[df['Year'] == selected_year].copy()
year_df(d, selected_year) ==
    SelectSeq(d, LAMBDA r : r["Year"] = <<selected_year>>)

\* Fault variant of df_after_update: the filter is assigned back to df.
df_replaced_by_year(d, selected_year) ==
    SelectSeq(d, LAMBDA r : r["Year"] = <<selected_year>>)

\* Line 87, .copy(): the writes of the callback go to the copy and to the
\* frames derived from it; df is what it was.
df_after_update(d, selected_year) == d

IsMissing(col, cell) ==
    IF col \in TextColumns THEN cell = NaN ELSE cell = NoNum

CellValue(col, cell) == IF col \in TextColumns THEN cell ELSE cell[1]

\* Line 121: home_country in locations.values
Highlight(locations) == home_country \in Range(locations)

\* Lines 91-92: year_df[['Country', selected_indicator]].dropna()
indicator_view(ydf, selected_indicator) ==
    IF selected_indicator \notin ColumnSet
    THEN [status |-> "KeyError"]
    ELSE LET map_data ==
                 SelectSeq(ydf, LAMBDA r :
                     /\ ~IsMissing("Country", r["Country"])
                     /\ ~IsMissing(selected_indicator, r[selected_indicator]))
             locations == [i \in DOMAIN map_data |-> map_data[i]["Country"]]
             z_data == [i \in DOMAIN map_data |->
                           CellValue(selected_indicator,
                                     map_data[i][selected_indicator])]
         IN  [status |-> "ok",
              locations |-> locations,
              z |-> z_data,
              has_customdata |-> FALSE,
              customdata |-> <<>>,
              hovertemplate |-> <<"indicator", selected_indicator>>,
              colorbar_title |-> selected_indicator,
              highlight |-> Highlight(locations)]

\* Fault variant of side_rows: both sides are filtered on the production
\* mineral.
side_rows_one_column(ydf, mineral_col, selected_mineral) ==
    IF selected_mineral = AllMineralsLabel
    THEN ydf
    ELSE SelectSeq(ydf, LAMBDA r :
             r["Production Mineral"] # NaN
             /\ r["Production Mineral"] = selected_mineral)

\* Lines 94-95, the row filter of one side:  all rows of the year for the
\* all-minerals label, else year_df[df[mineral_col] == selected_mineral].
side_rows(ydf, mineral_col, selected_mineral) ==
    IF selected_mineral = AllMineralsLabel
    THEN ydf
    ELSE SelectSeq(ydf, LAMBDA r :
             r[mineral_col] # NaN /\ r[mineral_col] = selected_mineral)

RECURSIVE sum_where(_, _, _)
sum_where(rows, country, qty_col) ==
    IF rows = <<>> THEN 0
    ELSE (IF Head(rows)["Country"] = country
            THEN Num(Head(rows)[qty_col]) ELSE 0)
         + sum_where(Tail(rows), country, qty_col)

\* Fault variant of groupby_sum: .count() in place of .sum().
groupby_count(rows, qty_col) ==
    [c \in {rows[i]["Country"] : i \in DOMAIN rows} \ {NaN} |->
        Cardinality({i \in DOMAIN rows :
            rows[i]["Country"] = c /\ rows[i][qty_col] # NoNum})]

\* .groupby('Country')[qty_col].sum(): one sum per country that has a row;
\* rows without a country belong to no group.
groupby_sum(rows, qty_col) ==
    [c \in {rows[i]["Country"] : i \in DOMAIN rows} \ {NaN} |->
        sum_where(rows, c, qty_col)]

\* Fault variant of merge_outer: how='inner'.
merge_inner(prod_df, import_df) ==
    LET keys == Sorted(DOMAIN prod_df \cap DOMAIN import_df)
    IN  [i \in DOMAIN keys |->
            [Country |-> keys[i],
             prod |-> prod_df[keys[i]],
             imp |-> import_df[keys[i]]]]

\* Lines 97-99: pd.merge(prod_df, import_df, on='Country', how='outer')
\* .fillna(0): the union of the keys in sorted order, 0 for an absent side.
merge_outer(prod_df, import_df) ==
    LET keys == Sorted(DOMAIN prod_df \cup DOMAIN import_df)
    IN  [i \in DOMAIN keys |->
            [Country |-> keys[i],
             prod |-> IF keys[i] \in DOMAIN prod_df
                        THEN prod_df[keys[i]] ELSE 0,
             imp |-> IF keys[i] \in DOMAIN import_df
                       THEN import_df[keys[i]] ELSE 0]]

\* Fault variant of keep: >= in place of >.
keep_nonnegative(selected_data_type, m) ==
    IF selected_data_type = "Production" THEN m.prod >= 0
    ELSE IF selected_data_type = "Import" THEN m.imp >= 0
    ELSE m.prod >= 0 \/ m.imp >= 0

\* Lines 102, 105, 108: the rows of merged_df a data type displays.
keep(selected_data_type, m) ==
    IF selected_data_type = "Production" THEN m.prod > 0
    ELSE IF selected_data_type = "Import" THEN m.imp > 0
    ELSE m.prod > 0 \/ m.imp > 0

\* Lines 94-113
mineral_view(ydf, selected_mineral, selected_data_type) ==
    LET prod_df == groupby_sum(
                       side_rows(ydf, "Production Mineral", selected_mineral),
                       "Production Qty")
        import_df == groupby_sum(
                       side_rows(ydf, "Import Mineral Name", selected_mineral),
                       "Import Qty")
        merged_df == merge_outer(prod_df, import_df)
        display_df ==
            SelectSeq(merged_df, LAMBDA m : keep(selected_data_type, m))
        locations == [i \in DOMAIN display_df |-> display_df[i].Country]
        combined == selected_data_type \notin {"Production", "Import"}
    IN  [status |-> "ok",
         locations |-> locations,
         z |-> [i \in DOMAIN display_df |->
                   IF selected_data_type = "Production"
                   THEN display_df[i].prod
                   ELSE IF selected_data_type = "Import"
                   THEN display_df[i].imp
                   ELSE display_df[i].prod + display_df[i].imp],
         has_customdata |-> combined,
         customdata |-> IF combined
                          THEN [i \in DOMAIN display_df |->
                                   <<display_df[i].prod, display_df[i].imp>>]
                          ELSE <<>>,
         hovertemplate |-> IF combined THEN <<"Combined">>
                           ELSE <<selected_data_type, unit>>,
         colorbar_title |-> "Quantity (tonnes)",
         highlight |-> Highlight(locations)]

\* Fault variant of update_map: the indicator overrides the all-minerals
\* selection only.
update_map_mineral_first(d, selected_year, selected_mineral, selected_data_type, selected_indicator) ==
    LET ydf == year_df(d, selected_year)
    IN  IF Truthy(selected_indicator) /\ selected_mineral = AllMineralsLabel
        THEN indicator_view(ydf, selected_indicator)
        ELSE mineral_view(ydf, selected_mineral, selected_data_type)

\* The figure update_map returns, or the exception it raises.
update_map(d, selected_year, selected_mineral, selected_data_type, selected_indicator) ==
    LET ydf == year_df(d, selected_year)
    IN  IF Truthy(selected_indicator)
        THEN indicator_view(ydf, selected_indicator)
        ELSE mineral_view(ydf, selected_mineral, selected_data_type)

\* The values the callback is called with.
DataTypes == {"Production", "Import", "Combined"}
NoIndicator == {NoneValue, ""}
Indicators == {"GDP", "Production Qty", "Bogus"}

\* The mineral and data type selections left in place while an indicator is
\* selected: the defaults of the dropdowns and two others.
SelectionsUnderIndicator ==
    {<<AllMineralsLabel, "Combined">>, <<"Iron", "Import">>,
     <<"Iron", "Production">>}

\* One evaluation of the callback, run to completion.
UpdateMap(selected_year, selected_mineral, selected_data_type, selected_indicator) ==
    /\ pc = "running"
    /\ callback
    /\ request' = [year |-> selected_year, mineral |-> selected_mineral,
                   data_type |-> selected_data_type,
                   indicator |-> selected_indicator]
    /\ result' = update_map(df, selected_year, selected_mineral,
                            selected_data_type, selected_indicator)
    /\ df' = df_after_update(df, selected_year)
    /\ UNCHANGED <<file, pc, df_defined, years, all_minerals, indicator_cols,
                   layout, callback>>

\* Any file; mineral requests and indicator requests.
Init == InitFrom(GeneralFiles)
Next ==
    \/ Load
    \/ \E y \in YearValues, m \in {AllMineralsLabel, "Iron"}, t \in DataTypes,
          i \in NoIndicator : UpdateMap(y, m, t, i)
    \/ \E y \in YearValues, s \in SelectionsUnderIndicator, i \in Indicators :
          UpdateMap(y, s[1], s[2], i)
Spec == Init /\ [][Next]_vars

\* The mineral views of one year: no indicator selected.
InitMineral == InitFrom(MineralFiles)
NextMineral ==
    \/ Load
    \/ \E m \in {AllMineralsLabel, "Iron"}, t \in DataTypes :
          UpdateMap(2020, m, t, NoneValue)
SpecMineral == InitMineral /\ [][NextMineral]_vars

(***************************************************************************)
(* What the properties below speak of                                      *)
(***************************************************************************)
\* A request has been evaluated.
Evaluated == pc = "running" /\ callback /\ result.status # "none"

IndicatorPath == Evaluated /\ Truthy(request.indicator)
MineralPath == Evaluated /\ ~Truthy(request.indicator)

RECURSIVE SumOver(_, _)
SumOver(S, f) ==
    IF S = {} THEN 0
    ELSE LET i == CHOOSE x \in S : TRUE
         IN  f[i] + SumOver(S \ {i}, f)

\* The rows of the requested year, by index.
YearRows == {i \in DOMAIN df : df[i]["Year"] = <<request.year>>}

(***************************************************************************)
(* Properties of the load and of the indicator path, under Spec            *)
(***************************************************************************)
\* C1: a request with a non-empty indicator has the result of every request
\* with the same indicator and year, whatever mineral and data type it
\* carries: figure, hover template and colorbar title are the same.
C1_IndicatorPrecedence ==
    IndicatorPath =>
        \A m \in {AllMineralsLabel} \cup Minerals, t \in DataTypes :
            update_map(df, request.year, m, t, request.indicator) = result

\* C1 witness: an indicator view with entries, asked for with a mineral and a
\* data type other than the defaults.
C1_Witness ==
    /\ IndicatorPath
    /\ request.mineral = "Iron"
    /\ request.data_type = "Import"
    /\ result.status = "ok"
    /\ Len(result.locations) > 0
    /\ result.colorbar_title = "GDP"

\* C6: for a year no record has, the year's rows are empty and the callback
\* returns a figure without entries, for every mineral, data type and valid
\* or absent indicator.
C6_NoDataIsNotAnError ==
    ( /\ Evaluated
      /\ YearRows = {}
      /\ Truthy(request.indicator) =>
            request.indicator \in Range(indicator_cols) )
    => /\ year_df(df, request.year) = <<>>
       /\ result.status = "ok"
       /\ result.locations = <<>>
       /\ result.z = <<>>

\* C6 witness: a table with records, none of the requested year.
C6_Witness ==
    /\ Evaluated
    /\ df # <<>>
    /\ YearRows = {}
    /\ request.indicator = "GDP"
    /\ \E i \in DOMAIN df : df[i]["GDP"] # NoNum /\ df[i]["Country"] # NaN
    /\ result.status = "ok"
    /\ result.locations = <<>>

\* C7: a request whose non-empty indicator is not one of the catalog's
\* indicator names fails and yields no figure.
C7_UnknownIndicatorFails ==
    (IndicatorPath /\ request.indicator \notin Range(indicator_cols))
    => result.status # "ok"

\* C8: when the file cannot be loaded, missing or unparseable, the
\* application runs with the error layout and without the callback.
C8_LoadFailureRecovered ==
    (pc # "start" /\ read_csv(file) # "ok")
    => /\ pc = "running"
       /\ layout = "error"
       /\ ~callback

\* C9: after the load every record of the table has an integer Year, and a
\* row of the file whose Year is no number is in no record, no mineral of the
\* catalog and no selectable year.
C9_YearCoercion ==
    (pc # "start" /\ df_defined) =>
        LET good == SelectSeq(file.rows, LAMBDA r : r["Year"].numeric)
        IN  /\ \A i \in DOMAIN df : df[i]["Year"] # NoNum
            /\ Len(df) = Len(good)
            /\ NoNum \notin years
            /\ Range(all_minerals) =
                  UNION {{good[i]["Production Mineral"],
                          good[i]["Import Mineral Name"]} : i \in DOMAIN good}
                  \ {NaN}

\* C10: while the callback serves requests, the table and the catalog are
\* what the load made of the file, and the result of the last request is the
\* one the request has on the table as loaded.
C10_ReadOnlyStore ==
    (pc = "running" /\ callback) =>
        LET loaded == clean_year(file.rows)
        IN  /\ df = loaded
            /\ years = years_of(loaded)
            /\ all_minerals = all_minerals_of(loaded)
            /\ indicator_cols = indicator_cols_of(loaded)
            /\ Evaluated =>
                  result = update_map(loaded, request.year, request.mineral,
                                      request.data_type, request.indicator)

\* C10 witness: a mineral view with an entry has been served from a table
\* that also holds records of another year.
C10_Witness ==
    /\ Evaluated
    /\ ~Truthy(request.indicator)
    /\ result.status = "ok"
    /\ Len(result.locations) = 1
    /\ \E i \in DOMAIN df : df[i]["Year"] # <<request.year>>
    /\ df = clean_year(file.rows)

(***************************************************************************)
(* Properties of the mineral views, under SpecMineral                      *)
(***************************************************************************)
\* A row is in the scope of the requested mineral on the side of mineral_col.
InScope(r, mineral_col) ==
    \/ request.mineral = AllMineralsLabel
    \/ r[mineral_col] = request.mineral

ProductionRows(c) ==
    {i \in YearRows : df[i]["Country"] = c
                      /\ InScope(df[i], "Production Mineral")}
ImportRows(c) ==
    {i \in YearRows : df[i]["Country"] = c
                      /\ InScope(df[i], "Import Mineral Name")}

ProductionQty == [i \in DOMAIN df |-> Num(df[i]["Production Qty"])]
ImportQty == [i \in DOMAIN df |-> Num(df[i]["Import Qty"])]

\* The summed production and import of a country in the requested scope.
Production(c) == SumOver(ProductionRows(c), ProductionQty)
Import(c) == SumOver(ImportRows(c), ImportQty)

\* The entry of a country in the result.
EntryOf(c) == CHOOSE i \in DOMAIN result.locations : result.locations[i] = c
Shown(c) == c \in Range(result.locations)

\* The production and the import values the result carries, summed.
ResultProductionSum ==
    SumOver(DOMAIN result.locations,
            [i \in DOMAIN result.locations |->
                IF request.data_type = "Production" THEN result.z[i]
                ELSE result.customdata[i][1]])
ResultImportSum ==
    SumOver(DOMAIN result.locations,
            [i \in DOMAIN result.locations |->
                IF request.data_type = "Import" THEN result.z[i]
                ELSE result.customdata[i][2]])

\* C2: for one mineral and the data type Combined, the entries are the
\* countries with production > 0 or import > 0 of that mineral in the year,
\* each valued production + import with the pair as auxiliary data; the
\* example table gives India 120 (100, 20) and China 200 (200, 0).
C2_CombinedOfOneMineral ==
    ( /\ MineralPath
      /\ request.mineral # AllMineralsLabel
      /\ request.data_type = "Combined" )
    => /\ result.status = "ok"
       /\ Range(result.locations) =
             {c \in Countries : Production(c) > 0 \/ Import(c) > 0}
       /\ Len(result.locations) = Cardinality(Range(result.locations))
       /\ result.has_customdata
       /\ \A i \in DOMAIN result.locations :
             LET c == result.locations[i]
             IN  /\ result.z[i] = Production(c) + Import(c)
                 /\ result.customdata[i] = <<Production(c), Import(c)>>
       /\ (file = FileOf(ExampleTable) /\ request.mineral = "Iron")
             => /\ result.locations = <<"China", "India">>
                /\ result.z = <<200, 120>>
                /\ result.customdata = << <<200, 0>>, <<100, 20>> >>

\* C2 witness: the example table, asked for Iron, Combined.
C2_Witness ==
    /\ MineralPath
    /\ file = FileOf(ExampleTable)
    /\ request.mineral = "Iron"
    /\ request.data_type = "Combined"
    /\ result.z = <<200, 120>>

\* C3 as stated: for the all-minerals scope the production values of the
\* result sum to the ProductionQty of all rows of the year, and the import
\* values to the ImportQty of all rows of the year.
C3_SumConservation_AllRows ==
    (MineralPath /\ request.mineral = AllMineralsLabel)
    => /\ request.data_type \in {"Production", "Combined"}
             => ResultProductionSum = SumOver(YearRows, ProductionQty)
       /\ request.data_type \in {"Import", "Combined"}
             => ResultImportSum = SumOver(YearRows, ImportQty)

\* The rows of the year that have a country.
CountryRows == {i \in YearRows : df[i]["Country"] # NaN}
NoNegativeQty ==
    \A i \in YearRows : ProductionQty[i] >= 0 /\ ImportQty[i] >= 0

\* C3 amended: for the all-minerals scope and a year without negative
\* quantities, the production values of the result sum to the ProductionQty
\* of the year's rows that have a country, and likewise for import.
C3_SumConservation ==
    (MineralPath /\ request.mineral = AllMineralsLabel /\ NoNegativeQty)
    => /\ request.data_type \in {"Production", "Combined"}
             => ResultProductionSum = SumOver(CountryRows, ProductionQty)
       /\ request.data_type \in {"Import", "Combined"}
             => ResultImportSum = SumOver(CountryRows, ImportQty)

\* C3 witness: a Combined view of all minerals where two rows add up and a
\* row without a country carries a quantity.
C3_Witness ==
    /\ MineralPath
    /\ request.mineral = AllMineralsLabel
    /\ request.data_type = "Combined"
    /\ NoNegativeQty
    /\ Cardinality(YearRows) = 2
    /\ \E i \in YearRows : df[i]["Country"] = NaN /\ ProductionQty[i] > 0
    /\ ResultProductionSum > 0
    /\ ResultImportSum > 0

\* C4: a country whose summed production and summed import in the requested
\* scope are both 0 is in no Production, Import or Combined result.
C4_PositivityFilter ==
    MineralPath =>
        \A c \in Countries :
            (Production(c) = 0 /\ Import(c) = 0) => ~Shown(c)

\* C4 witness: a country with rows in scope on both sides that sum to 0 is
\* left out of a result that shows another country.
C4_Witness ==
    /\ MineralPath
    /\ \E c \in Countries :
          /\ ProductionRows(c) # {}
          /\ ImportRows(c) # {}
          /\ Production(c) = 0
          /\ Import(c) = 0
          /\ ~Shown(c)
    /\ result.locations # <<>>

\* C5 as stated: in a Combined view a country with production rows in the
\* scope and no import row in the scope is in the result, with import 0.
C5_ZeroFill_Always ==
    (MineralPath /\ request.data_type = "Combined")
    => \A c \in Countries :
          (ProductionRows(c) # {} /\ ImportRows(c) = {})
          => /\ Shown(c)
             /\ result.customdata[EntryOf(c)][2] = 0

\* C5 amended: in a Combined view a country with production rows in the
\* scope that sum to more than 0 and no import row in the scope is in the
\* result with import 0; and a country with import rows that sum to more
\* than 0 and no production row is in the result with production 0.
C5_ZeroFill ==
    (MineralPath /\ request.data_type = "Combined")
    => \A c \in Countries :
          /\ (ProductionRows(c) # {} /\ ImportRows(c) = {}
                 /\ Production(c) > 0)
             => /\ Shown(c)
                /\ result.customdata[EntryOf(c)] = <<Production(c), 0>>
          /\ (ImportRows(c) # {} /\ ProductionRows(c) = {} /\ Import(c) > 0)
             => /\ Shown(c)
                /\ result.customdata[EntryOf(c)] = <<0, Import(c)>>

\* C5 witness: one country on the production side only, another on the import
\* side only, both shown.
C5_Witness ==
    /\ MineralPath
    /\ request.data_type = "Combined"
    /\ request.mineral = "Iron"
    /\ ProductionRows("India") # {} /\ ImportRows("India") = {}
    /\ ImportRows("China") # {} /\ ProductionRows("China") = {}
    /\ result.locations = <<"China", "India">>
    /\ result.customdata[1][1] = 0
    /\ result.customdata[2][2] = 0

====
